---- MODULE Spec2Model ----
(***************************************************************************)
(* Model of the CADE text-extraction engine                                *)
(* (projeto_cade/src/data_processing/extractor.py).                        *)
(*                                                                         *)
(* Texts are strings; the regular expressions of the source are kept as    *)
(* syntax trees and matched by a backtracking matcher that returns the     *)
(* candidate matches in the priority order of Python's re module, so that  *)
(* greedy quantifiers, optional groups and alternation order behave as in  *)
(* the code.  Floats are exact rationals [n, d] in lowest terms.           *)
(***************************************************************************)
EXTENDS Integers, Sequences, FiniteSets, TLC

(***************************************************************************)
(* Python values held in table cells and returned by the extractors.       *)
(***************************************************************************)
Str(s) == [k |-> "str", v |-> s]
None == [k |-> "none", v |-> ""]
Num(q) == [k |-> "num", v |-> q]
Lista(xs) == [k |-> "list", v |-> xs]
Dict(f) == [k |-> "dict", v |-> f]
Bool(b) == [k |-> "bool", v |-> b]

isinstance_str(x) == x.k = "str"
isinstance_list(x) == x.k = "list"
isinstance_dict(x) == x.k = "dict"

(***************************************************************************)
(* Exact rationals standing for Python floats.                             *)
(***************************************************************************)
RECURSIVE GCD(_, _)
GCD(a, b) == IF b = 0 THEN a ELSE GCD(b, a % b)

Frac(n, d) == LET g == GCD(n, d) IN IF n = 0 THEN [n |-> 0, d |-> 1] ELSE [n |-> n \div g, d |-> d \div g]

Leq(q, m) == q.n <= m * q.d

(***************************************************************************)
(* Characters and str.lower().                                             *)
(***************************************************************************)
Char(s, i) == SubSeq(s, i, i)

Digits == {"0", "1", "2", "3", "4", "5", "6", "7", "8", "9"}
Whitespace == {" ", "\t", "\n"}

DigitVal(c) ==
  CASE c = "0" -> 0 [] c = "1" -> 1 [] c = "2" -> 2 [] c = "3" -> 3 [] c = "4" -> 4
    [] c = "5" -> 5 [] c = "6" -> 6 [] c = "7" -> 7 [] c = "8" -> 8 [] c = "9" -> 9

Upper == <<"A", "B", "C", "D", "E", "F", "G", "H", "I", "J", "K", "L", "M", "N", "O", "P", "Q", "R", "S", "T", "U", "V", "W", "X", "Y", "Z", "Á", "Ã", "Â", "Ç", "É", "Ê", "Í", "Ó", "Õ", "Ú">>
LowerOf == <<"a", "b", "c", "d", "e", "f", "g", "h", "i", "j", "k", "l", "m", "n", "o", "p", "q", "r", "s", "t", "u", "v", "w", "x", "y", "z", "á", "ã", "â", "ç", "é", "ê", "í", "ó", "õ", "ú">>

lower_char(c) ==
  IF \E i \in 1..Len(Upper) : Upper[i] = c
  THEN LowerOf[CHOOSE i \in 1..Len(Upper) : Upper[i] = c]
  ELSE c

(* str.lower() and str.replace(old, new) for a one-character old, both     *)
(* character by character (the string is split in halves to keep the       *)
(* evaluation shallow).                                                    *)
RECURSIVE lower(_)
lower(s) ==
  IF Len(s) = 0 THEN ""
  ELSE IF Len(s) = 1 THEN lower_char(s)
  ELSE lower(SubSeq(s, 1, Len(s) \div 2)) \o lower(SubSeq(s, Len(s) \div 2 + 1, Len(s)))

RECURSIVE replace(_, _, _)
replace(s, old, new) ==
  IF Len(s) = 0 THEN ""
  ELSE IF Len(s) = 1 THEN (IF s = old THEN new ELSE s)
  ELSE replace(SubSeq(s, 1, Len(s) \div 2), old, new)
         \o replace(SubSeq(s, Len(s) \div 2 + 1, Len(s)), old, new)

(***************************************************************************)
(* Regular expressions: syntax trees.                                      *)
(***************************************************************************)
Lit(s) == [t |-> "lit", s |-> s, cs |-> {}, g |-> 0, rs |-> <<>>]
Cls(cs) == [t |-> "cls", s |-> "", cs |-> cs, g |-> 0, rs |-> <<>>]
Cat(rs) == [t |-> "cat", s |-> "", cs |-> {}, g |-> 0, rs |-> rs]
Alt(rs) == [t |-> "alt", s |-> "", cs |-> {}, g |-> 0, rs |-> rs]
Opt(r) == [t |-> "opt", s |-> "", cs |-> {}, g |-> 0, rs |-> <<r>>]
Star(r) == [t |-> "star", s |-> "", cs |-> {}, g |-> 0, rs |-> <<r>>]
Plus(r) == [t |-> "plus", s |-> "", cs |-> {}, g |-> 0, rs |-> <<r>>]
Grp(g, r) == [t |-> "grp", s |-> "", cs |-> {}, g |-> g, rs |-> <<r>>]

(***************************************************************************)
(* Backtracking matcher.  A match state is the next position and the span  *)
(* of each capture group; re_match returns every way the expression can match *)
(* from the state, most preferred first (greedy quantifiers try the longer *)
(* repetition first, alternatives are tried left to right).                *)
(***************************************************************************)
RECURSIVE re_match(_, _, _), re_match_from(_, _, _), re_match_cat(_, _, _), re_match_alt(_, _, _)

re_match_from(re, txt, sts) ==
  IF Len(sts) = 0 THEN <<>>
  ELSE re_match(re, txt, Head(sts)) \o re_match_from(re, txt, Tail(sts))

re_match_cat(rs, txt, sts) ==
  IF Len(rs) = 0 \/ Len(sts) = 0 THEN sts
  ELSE re_match_cat(Tail(rs), txt, re_match_from(Head(rs), txt, sts))

re_match_alt(rs, txt, st) ==
  IF Len(rs) = 0 THEN <<>>
  ELSE re_match(Head(rs), txt, st) \o re_match_alt(Tail(rs), txt, st)

re_match(re, txt, st) ==
  CASE re.t = "lit" ->
         IF /\ st.pos + Len(re.s) - 1 <= Len(txt)
            /\ SubSeq(txt, st.pos, st.pos + Len(re.s) - 1) = re.s
         THEN <<[st EXCEPT !.pos = @ + Len(re.s)]>>
         ELSE <<>>
    [] re.t = "cls" ->
         IF st.pos <= Len(txt) /\ Char(txt, st.pos) \in re.cs
         THEN <<[st EXCEPT !.pos = @ + 1]>>
         ELSE <<>>
    [] re.t = "cat" -> re_match_cat(re.rs, txt, <<st>>)
    [] re.t = "alt" -> re_match_alt(re.rs, txt, st)
    [] re.t = "opt" -> re_match(re.rs[1], txt, st) \o <<st>>
    [] re.t = "star" ->
         LET once == SelectSeq(re_match(re.rs[1], txt, st), LAMBDA s : s.pos > st.pos)
         IN  re_match_from(re, txt, once) \o <<st>>
    [] re.t = "plus" -> re_match_from(Star(re.rs[1]), txt, re_match(re.rs[1], txt, st))
    [] re.t = "grp" ->
         LET r == re_match(re.rs[1], txt, st)
         IN  [i \in 1..Len(r) |-> [r[i] EXCEPT !.cap[re.g] = [s |-> st.pos, e |-> r[i].pos]]]

StartAt(p) == [start |-> p, pos |-> p, cap |-> <<[s |-> 0, e |-> 0], [s |-> 0, e |-> 0]>>]

(* match.group(g) *)
group(txt, m, g) == SubSeq(txt, m.cap[g].s, m.cap[g].e - 1)

(* The scan of re.search from position p: the preferred match at the       *)
(* leftmost position where the expression matches, or no match.            *)
search_from(re, txt, p) ==
  LET starts == {q \in p..(Len(txt) + 1) : Len(re_match(re, txt, StartAt(q))) > 0}
  IN  IF starts = {} THEN <<>>
      ELSE LET q == CHOOSE q \in starts : \A r \in starts : q <= r
           IN  <<re_match(re, txt, StartAt(q))[1]>>

re_search(re, txt) == search_from(re, txt, 1)

(* re.findall with one capture group: the group-1 text of every            *)
(* non-overlapping match, scanning left to right.                          *)
RECURSIVE findall_from(_, _, _)
findall_from(re, txt, p) ==
  LET m == search_from(re, txt, p)
  IN  IF Len(m) = 0 THEN <<>>
      ELSE <<group(txt, m[1], 1)>>
             \o findall_from(re, txt, IF m[1].pos > m[1].start THEN m[1].pos ELSE m[1].start + 1)

re_findall(re, txt) == findall_from(re, txt, 1)

(***************************************************************************)
(* float() and int() on the numerals the patterns can capture: digits with *)
(* at most one point.  Anything else raises ValueError.                    *)
(***************************************************************************)
RECURSIVE int_digits(_, _)
int_digits(s, acc) ==
  IF Len(s) = 0 THEN acc ELSE int_digits(Tail(s), 10 * acc + DigitVal(Char(s, 1)))

RECURSIVE pow10(_)
pow10(k) == IF k = 0 THEN 1 ELSE 10 * pow10(k - 1)

all_digits(s) == \A i \in 1..Len(s) : Char(s, i) \in Digits

points(s) == {i \in 1..Len(s) : Char(s, i) = "."}

float_ok(s) ==
  \/ Len(s) > 0 /\ all_digits(s)
  \/ /\ Cardinality(points(s)) = 1
     /\ LET p == CHOOSE i \in points(s) : TRUE
        IN  /\ all_digits(SubSeq(s, 1, p - 1))
            /\ all_digits(SubSeq(s, p + 1, Len(s)))
            /\ Len(s) > 1

float(s) ==
  IF points(s) = {} THEN Frac(int_digits(s, 0), 1)
  ELSE LET p == CHOOSE i \in points(s) : TRUE
           ip == SubSeq(s, 1, p - 1)
           fp == SubSeq(s, p + 1, Len(s))
       IN  Frac(int_digits(ip, 0) * pow10(Len(fp)) + int_digits(fp, 0), pow10(Len(fp)))

int(s) == int_digits(s, 0)

(***************************************************************************)
(* extrair_percentual_multa                                                *)
(***************************************************************************)
SP == Plus(Cls(Whitespace))
SP0 == Star(Cls(Whitespace))
D == Cls(Digits)

\* r'(\d+[.,]?\d*)'
NumeralPercentual == Grp(1, Cat(<<Plus(D), Opt(Cls({".", ","})), Star(D)>>))

\* r'%\s+(?:do|de|sobre)?\s+(?:seu)?\s+faturamento'
SobreFaturamento ==
  <<Lit("%"), SP, Opt(Alt(<<Lit("do"), Lit("de"), Lit("sobre")>>)), SP, Opt(Lit("seu")), SP,
    Lit("faturamento")>>

\* r'(?:de|no\s+valor\s+de)'
DeOuNoValorDe == Alt(<<Lit("de"), Cat(<<Lit("no"), SP, Lit("valor"), SP, Lit("de")>>)>>)

\* r'(?:de|ao\s+pagamento\s+de)'
DeOuAoPagamentoDe == Alt(<<Lit("de"), Cat(<<Lit("ao"), SP, Lit("pagamento"), SP, Lit("de")>>)>>)

padroes_percentual ==
  << Cat(<<Lit("multa"), SP, Lit("de"), SP, NumeralPercentual>> \o SobreFaturamento),
     Cat(<<NumeralPercentual>> \o SobreFaturamento
           \o <<SP, Opt(Alt(<<Lit("bruto"), Lit("líquido")>>))>>),
     Cat(<<Lit("percentual"), SP, Lit("de"), SP, NumeralPercentual>> \o SobreFaturamento),
     Cat(<<Lit("pena"), SP, Lit("pecuniária"), SP, DeOuNoValorDe, SP, NumeralPercentual>>
           \o SobreFaturamento),
     Cat(<<Lit("multa"), SP, DeOuNoValorDe, SP, NumeralPercentual>> \o SobreFaturamento),
     Cat(<<Lit("aplicação"), SP, Lit("de"), SP, Lit("multa"), SP, Lit("de"), SP,
           NumeralPercentual>> \o SobreFaturamento),
     Cat(<<Lit("condenação"), SP, DeOuAoPagamentoDe, SP, Lit("multa"), SP, Lit("de"), SP,
           NumeralPercentual>> \o SobreFaturamento),
     Cat(<<Lit("condenação"), SP, DeOuAoPagamentoDe, SP, NumeralPercentual>>
           \o SobreFaturamento) >>

\* percentual_do_match without the "valor <= 100" test
percentual_do_match_sem_limite(match, resultados) ==
  LET s == replace(match, ",", ".")
  IN  IF ~float_ok(s) THEN resultados ELSE Append(resultados, float(s))

\* percentual_do_match without the replacement of the decimal comma
percentual_do_match_sem_virgula(match, resultados) ==
  IF ~float_ok(match) THEN resultados
  ELSE IF Leq(float(match), 100) THEN Append(resultados, float(match)) ELSE resultados

\* percentual_do_match that skips a value already in the list
percentual_do_match_sem_duplicatas(match, resultados) ==
  LET s == replace(match, ",", ".")
  IN  IF ~float_ok(s) THEN resultados
      ELSE IF Leq(float(s), 100) /\ \A i \in 1..Len(resultados) : resultados[i] # float(s)
           THEN Append(resultados, float(s)) ELSE resultados

(* One iteration of "for match in matches": the try block of lines 40-47.  *)
percentual_do_match(match, resultados) ==
  LET s == replace(match, ",", ".")
  IN  IF ~float_ok(s) THEN resultados
      ELSE IF Leq(float(s), 100) THEN Append(resultados, float(s)) ELSE resultados

RECURSIVE percentuais_dos_matches(_, _)
percentuais_dos_matches(matches, resultados) ==
  IF Len(matches) = 0 THEN resultados
  ELSE percentuais_dos_matches(Tail(matches), percentual_do_match(Head(matches), resultados))

RECURSIVE percentuais_dos_padroes(_, _, _)
percentuais_dos_padroes(padroes, texto, resultados) ==
  IF Len(padroes) = 0 THEN resultados
  ELSE percentuais_dos_padroes(Tail(padroes), texto,
         percentuais_dos_matches(re_findall(Head(padroes), texto), resultados))

\* extrair_percentual_multa without the isinstance test: texto.lower() raises on a non-string
extrair_percentual_multa_sem_isinstance(texto) ==
  IF ~isinstance_str(texto) THEN [k |-> "raise", v |-> "AttributeError"]
  ELSE LET resultados == percentuais_dos_padroes(padroes_percentual, lower(texto.v), <<>>)
       IN  IF Len(resultados) > 0 THEN Lista(resultados) ELSE None

extrair_percentual_multa(texto) ==
  IF ~isinstance_str(texto) THEN None
  ELSE LET resultados == percentuais_dos_padroes(padroes_percentual, lower(texto.v), <<>>)
       IN  IF Len(resultados) > 0 THEN Lista(resultados) ELSE None

(***************************************************************************)
(* extrair_valor_multa_reais                                               *)
(***************************************************************************)
\* r'(\d+[.,]?\d*(?:\.\d+)*)'
NumeralReais ==
  Grp(1, Cat(<<Plus(D), Opt(Cls({".", ","})), Star(D), Star(Cat(<<Lit("."), Plus(D)>>))>>))

padroes_reais ==
  << Cat(<<Lit("multa"), SP, Lit("de"), SP, Lit("r$"), SP0, NumeralReais>>),
     Cat(<<Lit("multa"), SP, Lit("no"), SP, Lit("valor"), SP, Lit("de"), SP, Lit("r$"), SP0,
           NumeralReais>>),
     Cat(<<Lit("pena"), SP, Lit("pecuniária"), SP, Lit("de"), SP, Lit("r$"), SP0, NumeralReais>>),
     Cat(<<Lit("condenação"), SP, DeOuAoPagamentoDe, SP, Lit("r$"), SP0, NumeralReais>>) >>

\* valor_do_match without the removal of the thousands separators
valor_do_match_sem_milhar(match, resultados) ==
  LET valor_str == replace(match, ",", ".")
  IN  IF ~float_ok(valor_str) THEN resultados ELSE Append(resultados, float(valor_str))

\* valor_do_match with the "valor <= 100" test of the percentages
valor_do_match_com_limite(match, resultados) ==
  LET valor_str == replace(replace(match, ".", ""), ",", ".")
  IN  IF ~float_ok(valor_str) THEN resultados
      ELSE IF Leq(float(valor_str), 100) THEN Append(resultados, float(valor_str))
      ELSE resultados

(* One iteration of "for match in matches": the try block of lines 78-85.  *)
valor_do_match(match, resultados) ==
  LET valor_str == replace(replace(match, ".", ""), ",", ".")
  IN  IF ~float_ok(valor_str) THEN resultados ELSE Append(resultados, float(valor_str))

RECURSIVE valores_dos_matches(_, _)
valores_dos_matches(matches, resultados) ==
  IF Len(matches) = 0 THEN resultados
  ELSE valores_dos_matches(Tail(matches), valor_do_match(Head(matches), resultados))

RECURSIVE valores_dos_padroes(_, _, _)
valores_dos_padroes(padroes, texto, resultados) ==
  IF Len(padroes) = 0 THEN resultados
  ELSE valores_dos_padroes(Tail(padroes), texto,
         valores_dos_matches(re_findall(Head(padroes), texto), resultados))

\* extrair_valor_multa_reais returning the list even when it is empty
extrair_valor_multa_reais_lista_vazia(texto) ==
  IF ~isinstance_str(texto) THEN None
  ELSE Lista(valores_dos_padroes(padroes_reais, lower(texto.v), <<>>))

extrair_valor_multa_reais(texto) ==
  IF ~isinstance_str(texto) THEN None
  ELSE LET resultados == valores_dos_padroes(padroes_reais, lower(texto.v), <<>>)
       IN  IF Len(resultados) > 0 THEN Lista(resultados) ELSE None

(***************************************************************************)
(* extrair_elementos_dosimetria                                            *)
(*                                                                         *)
(* A dict is the sequence of its items in insertion order; {} is <<>>.     *)
(***************************************************************************)
dict_keys(d) == {d.v[i].key : i \in 1..Len(d.v)}

dict_get(d, key) ==
  IF key \in dict_keys(d)
  THEN d.v[CHOOSE i \in 1..Len(d.v) : d.v[i].key = key].val
  ELSE None

dict_set(d, key, val) ==
  IF key \in dict_keys(d)
  THEN Dict([i \in 1..Len(d.v) |-> IF d.v[i].key = key THEN [key |-> key, val |-> val] ELSE d.v[i]])
  ELSE Dict(Append(d.v, [key |-> key, val |-> val]))

found(m) == Len(m) > 0

contains(s, sub) == \E i \in 1..(Len(s) - Len(sub) + 1) : SubSeq(s, i, i + Len(sub) - 1) = sub

re_reincidencia == Cat(<<Lit("reincid"), Cls({"ê", "e"}), Lit("ncia")>>)
re_reincidente == Lit("reincidente")
re_boa_fe == Cat(<<Lit("boa"), Cls({"-", " "}), Lit("f"), Cls({"é", "e"})>>)
re_ma_fe == Cat(<<Lit("m"), Cls({"á", "a"}), Cls({"-", " "}), Lit("f"), Cls({"é", "e"})>>)
re_cooperacao == Cat(<<Lit("cooper"), Cls({"a", "o"}), Cls({"ç", "c"}), Cls({"ã", "a"}), Lit("o")>>)
re_colaboracao == Cat(<<Lit("colabor"), Cls({"a", "o"}), Cls({"ç", "c"}), Cls({"ã", "a"}), Lit("o")>>)

\* re_gravidade with 'media' written without its accent
re_gravidade_sem_acento ==
  Cat(<<Grp(1, Alt(<<Lit("alta"), Lit("elevada"), Lit("grave"), Lit("baixa"), Lit("leve"),
                     Lit("media"), Lit("moderada")>>)),
        SP, Lit("gravidade")>>)

\* r'(alta|elevada|grave|baixa|leve|média|moderada)\s+gravidade'
re_gravidade ==
  Cat(<<Grp(1, Alt(<<Lit("alta"), Lit("elevada"), Lit("grave"), Lit("baixa"), Lit("leve"),
                     Lit("média"), Lit("moderada")>>)),
        SP, Lit("gravidade")>>)

re_duracao ==
  Cat(<<Lit("conduta"), SP, Alt(<<Lit("por"), Lit("durante")>>), SP, Grp(1, Plus(D)), SP,
        Grp(2, Alt(<<Cat(<<Lit("ano"), Opt(Lit("s"))>>), Cat(<<Lit("mese"), Opt(Lit("s"))>>),
                     Cat(<<Lit("dia"), Opt(Lit("s"))>>)>>))>>)

elementos_padrao ==
  Dict(<<[key |-> "reincidencia", val |-> Bool(FALSE)],
         [key |-> "boa_fe", val |-> Bool(FALSE)],
         [key |-> "ma_fe", val |-> Bool(FALSE)],
         [key |-> "cooperacao", val |-> Bool(FALSE)],
         [key |-> "gravidade", val |-> None],
         [key |-> "duracao_conduta", val |-> None]>>)

\* duracao_em_meses that leaves a number of days as it is
duracao_em_meses_sem_dias(numeral, unidade) ==
  LET valor == int(numeral)
  IN  IF contains(unidade, "ano") THEN Frac(valor * 12, 1) ELSE Frac(valor, 1)

(* Lines 134-146: the duration in months from the matched numeral and unit. *)
duracao_em_meses(numeral, unidade) ==
  LET valor == int(numeral)
  IN  IF contains(unidade, "ano") THEN Frac(valor * 12, 1)
      ELSE IF contains(unidade, "dia") THEN Frac(valor, 30)
      ELSE Frac(valor, 1)

nao_texto_dosimetria == Dict(<<>>)

extrair_elementos_dosimetria(texto) ==
  IF ~isinstance_str(texto) THEN nao_texto_dosimetria
  ELSE
    LET t == lower(texto.v)
        e0 == elementos_padrao
        e1 == IF found(re_search(re_reincidencia, t)) \/ found(re_search(re_reincidente, t))
              THEN dict_set(e0, "reincidencia", Bool(TRUE)) ELSE e0
        e2 == IF found(re_search(re_boa_fe, t))
              THEN dict_set(e1, "boa_fe", Bool(TRUE)) ELSE e1
        e3 == IF found(re_search(re_ma_fe, t))
              THEN dict_set(e2, "ma_fe", Bool(TRUE)) ELSE e2
        e4 == IF found(re_search(re_cooperacao, t)) \/ found(re_search(re_colaboracao, t))
              THEN dict_set(e3, "cooperacao", Bool(TRUE)) ELSE e3
        gravidade_match == re_search(re_gravidade, t)
        e5 == IF found(gravidade_match)
              THEN dict_set(e4, "gravidade", Str(group(t, gravidade_match[1], 1))) ELSE e4
        duracao_match == re_search(re_duracao, t)
        e6 == IF found(duracao_match)
              THEN dict_set(e5, "duracao_conduta",
                     Num(duracao_em_meses(group(t, duracao_match[1], 1),
                                          group(t, duracao_match[1], 2))))
              ELSE e5
    IN  e6

(***************************************************************************)
(* DataFrames.  A table is its ordered column names and its rows; a row    *)
(* carries its index label and one cell per column.                        *)
(*                                                                         *)
(* Python evaluates each statement once and keeps its value: the(...)      *)
(* binds a value once it is computed, and a series or a list of rows is    *)
(* built element by element (\o <<>> makes the tuple).                     *)
(***************************************************************************)
the(S) == CHOOSE x \in S : TRUE

has_column(t, col) == \E i \in 1..Len(t.columns) : t.columns[i] = col

\* df[col]
column(t, col) == [i \in 1..Len(t.rows) |-> t.rows[i].cells[col]] \o <<>>


\* set_column that appends the column even when it exists
set_column_acrescenta(t0, col, s0) ==
  the({[columns |-> Append(t.columns, col),
        rows |-> [i \in 1..Len(t.rows) |-> [t.rows[i] EXCEPT !.cells = (col :> s[i]) @@ @]]
                   \o <<>>]
       : t \in {t0}, s \in {s0}})

\* set_column that writes the first row's value in every row
set_column_primeira_linha(t0, col, s0) ==
  the({[columns |-> IF has_column(t, col) THEN t.columns ELSE Append(t.columns, col),
        rows |-> [i \in 1..Len(t.rows) |-> [t.rows[i] EXCEPT !.cells = (col :> s[1]) @@ @]]
                   \o <<>>]
       : t \in {t0}, s \in {s0}})

\* df[col] = s : overwrites the column in place, or appends a new last column
set_column(t0, col, s0) ==
  the({[columns |-> IF has_column(t, col) THEN t.columns ELSE Append(t.columns, col),
        rows |-> [i \in 1..Len(t.rows) |-> [t.rows[i] EXCEPT !.cells = (col :> s[i]) @@ @]]
                   \o <<>>]
       : t \in {t0}, s \in {s0}})

\* Series.notnull() on one cell
notnull(x) == x.k # "none"

\* the lambda taking the last element, x[-1]
primeiro_ultimo(x) == IF isinstance_list(x) /\ Len(x.v) > 0 THEN Num(x.v[Len(x.v)]) ELSE None

\* lambda x: x[0] if isinstance(x, list) and len(x) > 0 else None
primeiro(x) == IF isinstance_list(x) /\ Len(x.v) > 0 THEN Num(x.v[1]) ELSE None

\* lambda x: x.get(elemento) if isinstance(x, dict) else None
elemento_de(x, elemento) == IF isinstance_dict(x) THEN dict_get(x, elemento) ELSE None

ElementosDosimetria == <<"reincidencia", "boa_fe", "ma_fe", "cooperacao", "gravidade", "duracao_conduta">>

coluna_dosimetria(elemento) == "dosimetria_" \o elemento

\* Lines 165, 168-170, 173, 176-178, 181: one derived column each
atribuir_percentuais_multa(t0, coluna_texto) ==
  the({set_column(t, "percentuais_multa",
         [i \in 1..Len(t.rows) |-> extrair_percentual_multa(column(t, coluna_texto)[i])] \o <<>>) : t \in {t0}})

atribuir_percentual_multa(t0) ==
  the({set_column(t, "percentual_multa",
         [i \in 1..Len(t.rows) |-> primeiro(column(t, "percentuais_multa")[i])] \o <<>>) : t \in {t0}})

atribuir_valores_multa_reais(t0, coluna_texto) ==
  the({set_column(t, "valores_multa_reais",
         [i \in 1..Len(t.rows) |-> extrair_valor_multa_reais(column(t, coluna_texto)[i])] \o <<>>) : t \in {t0}})

atribuir_valor_multa_reais(t0) ==
  the({set_column(t, "valor_multa_reais",
         [i \in 1..Len(t.rows) |-> primeiro(column(t, "valores_multa_reais")[i])] \o <<>>) : t \in {t0}})

atribuir_elementos_dosimetria(t0, coluna_texto) ==
  the({set_column(t, "elementos_dosimetria",
         [i \in 1..Len(t.rows) |-> extrair_elementos_dosimetria(column(t, coluna_texto)[i])] \o <<>>) : t \in {t0}})

\* Lines 184-187: one column per dosimetry element
RECURSIVE expandir_dosimetria(_, _)
expandir_dosimetria(t0, elementos) ==
  IF Len(elementos) = 0 THEN t0
  ELSE the({expandir_dosimetria(
              set_column(t, coluna_dosimetria(Head(elementos)),
                [i \in 1..Len(t.rows) |->
                   elemento_de(t.rows[i].cells["elementos_dosimetria"], Head(elementos))] \o <<>>),
              Tail(elementos)) : t \in {t0}})

\* the admission filter with "and" in the place of "or"
admitida_ambos(row) ==
  notnull(row.cells["percentual_multa"]) /\ notnull(row.cells["valor_multa_reais"])

\* no admission filter: every row is kept
admitida_sempre(row) == TRUE

\* Lines 189-192: the admission filter
admitida(row) ==
  notnull(row.cells["percentual_multa"]) \/ notnull(row.cells["valor_multa_reais"])

filtrar_condenados(t) == [columns |-> t.columns, rows |-> SelectSeq(t.rows, admitida)]

\* an assignment in the place of the copy: df_resultado = df
df_copy_alias(t) == [alias |-> TRUE, t |-> t]

\* df.copy(): a new table with the same content
df_copy(t) == [alias |-> FALSE, t |-> t]

SemTabela == [columns |-> <<>>, rows |-> <<>>]

\* the exception a function applied to a cell raised, "" if none: Series.apply lets it through
excecao_em(t) ==
  IF \E i \in 1..Len(t.rows) : \E c \in DOMAIN t.rows[i].cells : t.rows[i].cells[c].k = "raise"
  THEN LET i == CHOOSE i \in 1..Len(t.rows) :
                  \E c \in DOMAIN t.rows[i].cells : t.rows[i].cells[c].k = "raise"
           c == CHOOSE c \in DOMAIN t.rows[i].cells : t.rows[i].cells[c].k = "raise"
       IN  t.rows[i].cells[c].v
  ELSE ""

\* Lines 165-187: the statements that write the derived columns of df_resultado
colunas_derivadas(t0, coluna_texto) ==
  expandir_dosimetria(
    atribuir_elementos_dosimetria(
      atribuir_valor_multa_reais(
        atribuir_valores_multa_reais(
          atribuir_percentual_multa(
            atribuir_percentuais_multa(t0, coluna_texto)),
          coluna_texto)),
      coluna_texto),
    ElementosDosimetria)

\* the call with a missing text column recovered from: an empty table is returned
aplicar_extracao_ao_dataframe_sem_erro(df, coluna_texto) ==
  IF ~has_column(df_copy(df).t, coluna_texto)
  THEN [raised |-> "", df |-> df, df_resultado |-> df_copy(df).t,
        df_condenados |-> [columns |-> df.columns, rows |-> <<>>]]
  ELSE the({IF excecao_em(df_resultado) # ""
            THEN [raised |-> excecao_em(df_resultado),
                  df |-> IF df_copy(df).alias THEN df_resultado ELSE df,
                  df_resultado |-> SemTabela, df_condenados |-> SemTabela]
            ELSE [raised |-> "",
                  df |-> IF df_copy(df).alias THEN df_resultado ELSE df,
                  df_resultado |-> df_resultado,
                  df_condenados |-> filtrar_condenados(df_resultado)]
            : df_resultado \in {colunas_derivadas(df_copy(df).t, coluna_texto)}})

(* The call aplicar_extracao_ao_dataframe(df, coluna_texto): what is raised, *)
(* the caller's table after the call, the local df_resultado when the call   *)
(* returns and the table returned.  A missing text column raises KeyError at *)
(* line 165, after the copy and before any column is written; an exception   *)
(* of a function applied to a cell ends the call as well.                    *)
aplicar_extracao_ao_dataframe(df, coluna_texto) ==
  IF ~has_column(df_copy(df).t, coluna_texto)
  THEN [raised |-> "KeyError", df |-> df, df_resultado |-> SemTabela,
        df_condenados |-> SemTabela]
  ELSE the({IF excecao_em(df_resultado) # ""
            THEN [raised |-> excecao_em(df_resultado),
                  df |-> IF df_copy(df).alias THEN df_resultado ELSE df,
                  df_resultado |-> SemTabela, df_condenados |-> SemTabela]
            ELSE [raised |-> "",
                  df |-> IF df_copy(df).alias THEN df_resultado ELSE df,
                  df_resultado |-> df_resultado,
                  df_condenados |-> filtrar_condenados(df_resultado)]
            : df_resultado \in {colunas_derivadas(df_copy(df).t, coluna_texto)}})

(***************************************************************************)
(* inference.py.  The tables of the later stages are kept by what those    *)
(* stages read of them: the set of column names and the number of rows.    *)
(***************************************************************************)
MinimoLinhasTreino == 10

FeaturesNumericas == <<"ano_documento", "dosimetria_duracao_conduta">>
FeaturesCategoricas == <<"descricao_tipo_documento", "dosimetria_gravidade">>
FeaturesBinarias ==
  <<"dosimetria_reincidencia", "dosimetria_boa_fe", "dosimetria_ma_fe", "dosimetria_cooperacao">>

\* [col for col in features if col in df_modelo.columns]
existentes(features, colunas) == SelectSeq(features, LAMBDA col : col \in colunas)

\* a Python int
Inteiro(n) == [k |-> "int", v |-> n]

\* str(item), for the items the decision lists hold here: strings, None, booleans
str(x) ==
  IF isinstance_str(x) THEN x.v
  ELSE IF x = None THEN "None"
  ELSE IF x = Bool(TRUE) THEN "True" ELSE "False"

\* the lambda of line 35 without lower()
condenacao_sem_lower(x) ==
  IF isinstance_list(x) /\ \E j \in 1..Len(x.v) : contains(str(x.v[j]), "condenação")
  THEN Inteiro(1) ELSE Inteiro(0)

\* Line 35: 1 if isinstance(x, list) and any('condenação' in str(item).lower() ...) else 0
condenacao(x) ==
  IF isinstance_list(x) /\ \E j \in 1..Len(x.v) : contains(lower(str(x.v[j])), "condenação")
  THEN Inteiro(1) ELSE Inteiro(0)

\* Series.isna() of one cell
isna(x) == x = None

(* Lines 29-79: (X, y), or (None, None) without the decision column or     *)
(* without any feature, and the caller's table after the call.  The rows   *)
(* of X and y are named by their position in the input (indice); every     *)
(* write goes to the copy of line 30.                                      *)
preparar_dados_para_modelo(t) ==
  IF "decisao_tribunal" \notin t.colunas THEN [X |-> None, y |-> None, df |-> t]
  ELSE LET coluna_condenacao == [i \in 1..t.linhas |-> condenacao(t.decisoes[i])] \o <<>>
           todas_features == existentes(FeaturesNumericas, t.colunas)
                               \o existentes(FeaturesCategoricas, t.colunas)
                               \o existentes(FeaturesBinarias, t.colunas)
           mask == SelectSeq([i \in 1..t.linhas |-> i], LAMBDA i : ~isna(coluna_condenacao[i]))
       IN  IF Len(todas_features) = 0 THEN [X |-> None, y |-> None, df |-> t]
           ELSE [X |-> [k |-> "frame",
                        v |-> [colunas |-> todas_features, linhas |-> Len(mask), indice |-> mask]],
                 y |-> [k |-> "series",
                        v |-> [nome |-> "condenacao", linhas |-> Len(mask), indice |-> mask,
                               valores |-> [j \in 1..Len(mask) |-> coluna_condenacao[mask[j]]]]],
                 df |-> t]

\* len(X) < 10, for an X that is not None
poucas_linhas(X) == X.v.linhas < MinimoLinhasTreino

ResultadoErro ==
  Dict(<<[key |-> "status", val |-> Str("erro")],
         [key |-> "mensagem", val |-> Str("Dados insuficientes para treinar o modelo")]>>)

ResultadoSucesso ==
  Dict(<<[key |-> "status", val |-> Str("sucesso")],
         [key |-> "pipeline", val |-> [k |-> "obj", v |-> "Pipeline"]],
         [key |-> "accuracy", val |-> [k |-> "obj", v |-> "float"]],
         [key |-> "report", val |-> [k |-> "obj", v |-> "dict"]],
         [key |-> "confusion_matrix", val |-> [k |-> "obj", v |-> "list"]],
         [key |-> "feature_importance", val |-> [k |-> "obj", v |-> "dict"]]>>)

PassosAteFit == <<"criar_pipeline_modelo", "train_test_split", "fit">>
PassosDepoisDeFit ==
  <<"predict", "accuracy_score", "classification_report", "confusion_matrix",
    "feature_importances_">>

\* treinar_modelo_inferencial without the "is None" tests: len(None) raises
treinar_modelo_inferencial_sem_None(t, excecao_sklearn) ==
  IF preparar_dados_para_modelo(t).X = None
  THEN [raised |-> "TypeError", retorno |-> None, passos |-> <<>>]
  ELSE IF poucas_linhas(preparar_dados_para_modelo(t).X)
  THEN [raised |-> "", retorno |-> ResultadoErro, passos |-> <<>>]
  ELSE IF excecao_sklearn # ""
  THEN [raised |-> excecao_sklearn, retorno |-> None, passos |-> PassosAteFit]
  ELSE [raised |-> "", retorno |-> ResultadoSucesso, passos |-> PassosAteFit \o PassosDepoisDeFit]

(* Lines 128-193: what the call raises, what it returns and the training   *)
(* steps it ran.  excecao_sklearn is the exception scikit-learn raises on  *)
(* the data while fitting, "" if none.                                     *)
treinar_modelo_inferencial(t, excecao_sklearn) ==
  IF \/ preparar_dados_para_modelo(t).X = None
     \/ preparar_dados_para_modelo(t).y = None
     \/ poucas_linhas(preparar_dados_para_modelo(t).X)
  THEN [raised |-> "", retorno |-> ResultadoErro, passos |-> <<>>]
  ELSE IF excecao_sklearn # ""
  THEN [raised |-> excecao_sklearn, retorno |-> None, passos |-> PassosAteFit]
  ELSE [raised |-> "", retorno |-> ResultadoSucesso, passos |-> PassosAteFit \o PassosDepoisDeFit]

\* resultados_modelo[key]: the value, or KeyError for a key the dict does not have
subscript(d, key) ==
  IF key \in dict_keys(d) THEN dict_get(d, key) ELSE [k |-> "raise", v |-> "KeyError"]

(* Lines 207-240: what the call raises, what it returns, the files it      *)
(* writes and the fields of resultados_modelo it reads.  output_path is "" *)
(* when no path is given (the plot is shown, not saved).                   *)
visualizar_importancia_features(resultados_modelo, output_path) ==
  IF subscript(resultados_modelo, "status") # Str("sucesso")
  THEN [raised |-> "", retorno |-> None, arquivos |-> {}, lidos |-> {"status"}]
  ELSE IF "feature_importance" \notin dict_keys(resultados_modelo)
  THEN [raised |-> "KeyError", retorno |-> None, arquivos |-> {},
        lidos |-> {"status", "feature_importance"}]
  ELSE [raised |-> "", retorno |-> IF output_path # "" THEN Str(output_path) ELSE None,
        arquivos |-> IF output_path # "" THEN {output_path} ELSE {},
        lidos |-> {"status", "feature_importance"}]

\* Lines 254-282, likewise
visualizar_matriz_confusao(resultados_modelo, output_path) ==
  IF subscript(resultados_modelo, "status") # Str("sucesso")
  THEN [raised |-> "", retorno |-> None, arquivos |-> {}, lidos |-> {"status"}]
  ELSE IF "confusion_matrix" \notin dict_keys(resultados_modelo)
  THEN [raised |-> "KeyError", retorno |-> None, arquivos |-> {},
        lidos |-> {"status", "confusion_matrix"}]
  ELSE [raised |-> "", retorno |-> IF output_path # "" THEN Str(output_path) ELSE None,
        arquivos |-> IF output_path # "" THEN {output_path} ELSE {},
        lidos |-> {"status", "confusion_matrix"}]

(***************************************************************************)
(* main.py                                                                 *)
(***************************************************************************)
colunas_texto_candidatas ==
  <<"corpo_texto_formatado", "corpo_texto", "conteudo", "descricao_titulo_documento",
    "descricao_tipo_documento">>

\* the columns line 76 adds: those the extraction writes on a table with texto_completo
ColunasDaExtracao ==
  LET t == colunas_derivadas([columns |-> <<"texto_completo">>, rows |-> <<>>], "texto_completo")
  IN  {t.columns[i] : i \in 1..Len(t.columns)}

ArquivosEstatisticas ==
  {"estatisticas_gerais.csv", "estatisticas_por_ano.csv", "estatisticas_por_tipo.csv"}


caminho_importancia == "visualizacoes/importancia_features.png"
caminho_matriz == "visualizacoes/matriz_confusao.png"
caminho_report == "relatorio_classificacao.csv"

ArquivosModelo == {caminho_importancia, caminho_matriz, caminho_report}

\* Lines 113-125, the branch taken on success: the two plots, the report, the accuracy; a
\* field that is missing raises KeyError and ends the block with what was written until then
usar_resultados_do_modelo(resultados_modelo) ==
  LET importancia == visualizar_importancia_features(resultados_modelo, caminho_importancia)
      matriz == visualizar_matriz_confusao(resultados_modelo, caminho_matriz)
      plots == importancia.arquivos \cup matriz.arquivos
      lidos == importancia.lidos \cup matriz.lidos
  IN  IF importancia.raised # ""
      THEN [raised |-> importancia.raised, arquivos |-> {}, lidos |-> importancia.lidos]
      ELSE IF matriz.raised # ""
      THEN [raised |-> matriz.raised, arquivos |-> importancia.arquivos, lidos |-> lidos]
      ELSE IF "report" \notin dict_keys(resultados_modelo)
      THEN [raised |-> "KeyError", arquivos |-> plots, lidos |-> lidos \cup {"report"}]
      ELSE IF "accuracy" \notin dict_keys(resultados_modelo)
      THEN [raised |-> "KeyError", arquivos |-> plots \cup {caminho_report},
            lidos |-> lidos \cup {"report", "accuracy"}]
      ELSE [raised |-> "", arquivos |-> plots \cup {caminho_report},
            lidos |-> lidos \cup {"report", "accuracy"}]

\* salvar_resultados_do_modelo without the test of the status
salvar_resultados_do_modelo_sem_status(resultados_modelo) ==
  usar_resultados_do_modelo(resultados_modelo)

(* Lines 111-127: the status check and its two branches: what the block    *)
(* raises, the files it writes and the fields of resultados_modelo read.   *)
salvar_resultados_do_modelo(resultados_modelo) ==
  IF subscript(resultados_modelo, "status") = Str("sucesso")
  THEN LET r == usar_resultados_do_modelo(resultados_modelo)
       IN  [raised |-> r.raised, arquivos |-> r.arquivos, lidos |-> r.lidos \cup {"status"}]
  ELSE IF "mensagem" \notin dict_keys(resultados_modelo)
  THEN [raised |-> "KeyError", arquivos |-> {}, lidos |-> {"status", "mensagem"}]
  ELSE [raised |-> "", arquivos |-> {}, lidos |-> {"status", "mensagem"}]

SemDataset == [colunas |-> {}, linhas |-> 0, ano_zero |-> FALSE, decisoes |-> <<>>]

\* df[mask] for a mask that keeps n rows of a table whose decisao_tribunal cells are all equal
manter(t, n) ==
  [t EXCEPT !.linhas = n, !.decisoes = IF Len(@) = 0 THEN <<>> ELSE SubSeq(@, 1, n)]

SemDados == [X |-> None, y |-> None]

(***************************************************************************)
(* Inputs.                                                                 *)
(***************************************************************************)
MaxLinhas == 2

TextoArquivado == "o processo foi arquivado sem aplicação de penalidade"
TextoCondenada == "a empresa foi condenada ao pagamento de multa de 15,5% de seu faturamento, havendo reincidência e boa-fé"
TextoMilhar == "multa de R$ 1.234,56"
TextoMilhao == "multa no valor de R$ 1.500.000,00"
TextoOrdem == "10% de seu faturamento e multa de 20% de seu faturamento"
TextoAmbos == "pena pecuniária de 3% de seu faturamento ou multa de R$ 5"
TextoAcima == "multa de 101% de seu faturamento, de má-fé"
TextoDois == "10% de seu faturamento bruto e 20% de seu faturamento líquido"
TextoAcimaESete == "multa de 101% sobre seu faturamento e multa de 7% de seu faturamento"

\* values a cell of the text column can hold
Entradas ==
  {Str(TextoArquivado), Str(TextoCondenada), Str(TextoMilhar), Str(TextoMilhao),
   Str(TextoAmbos), Str(TextoDois), None, Num(Frac(7, 2))}

\* names the text column of the input table can have
ColunasEntrada == {"texto_completo", "percentuais_multa"}

\* values of the coluna_texto argument
ColunasTexto == {"texto_completo", "percentuais_multa"}

Prefixos == {"multa de ", "Multa no valor de ", "percentual de ", "condenação ao pagamento de ", "multa de R$ ", ""}
Numerais == {"0", "15", "15,5", "12,5", "12.5", "100", "100,5", "101", "1.234,56", "1.500.000,00"}
Sufixos == {"", "% de seu faturamento", "% do faturamento", "%   faturamento bruto", "% sobre seu faturamento e multa de 7% de seu faturamento"}

Frases == {pre \o num \o suf : pre \in Prefixos, num \in Numerais, suf \in Sufixos}

\* texts about the duration of the conduct: preposition, numeral with its value, unit with
\* the months it stands for as a fraction, and what follows the phrase
PreposicoesDuracao == {"por", "durante"}
NumeraisDuracao == {<<"0", 0>>, <<"1", 1>>, <<"12", 12>>, <<"30", 30>>, <<"45", 45>>}
UnidadesDuracao ==
  {<<"ano", 12, 1>>, <<"anos", 12, 1>>, <<"meses", 1, 1>>, <<"dia", 1, 30>>, <<"dias", 1, 30>>}
RestosDuracao == {"", " e conduta por 7 meses"}

TextoDuracao(prep, numeral, unidade, resto) ==
  "Praticou a Conduta " \o prep \o " " \o numeral \o " " \o unidade \o resto

TextosDuracao ==
  {TextoDuracao(prep, n[1], u[1], resto) :
     prep \in PreposicoesDuracao, n \in NumeraisDuracao, u \in UnidadesDuracao,
     resto \in RestosDuracao}

\* texts that name a duration in a form the code does not look for
TextosSemDuracao ==
  {"conduta por 3 mês", "conduta por 3 mes", "conduta por 12meses", "conduta de 2 anos",
   "conduta por dois anos", "duração de 5 anos"}

\* texts about the gravity of the conduct: what precedes, the adjective, the gap, what follows
AntesGravidade == {"infração de ", "CONDUTA DE "}
Adjetivos == {"alta", "elevada", "grave", "baixa", "leve", "média", "moderada"}
EspacosGravidade == {" ", "  "}
RestosGravidade == {"", " e não de leve gravidade"}

TextoGravidade(antes, adjetivo, espaco, resto) ==
  antes \o adjetivo \o espaco \o "gravidade" \o resto

TextosGravidade ==
  {TextoGravidade(antes, adj, esp, resto) :
     antes \in AntesGravidade, adj \in Adjetivos, esp \in EspacosGravidade,
     resto \in RestosGravidade}
    \cup {"ALTA GRAVIDADE", "MÉDIA GRAVIDADE"}

\* texts that name a gravity in a form the code does not look for
TextosSemGravidade ==
  {"gravidade alta", "media gravidade", "altíssima gravidade", "alta-gravidade",
   "gravíssima", "alta e elevada"}

\* texts that state a fine as a share of revenue: the numeral with its value, the preposition
\* and the possessive, each of the two last present or not, words one space apart
NumeraisAteCem == {<<"0", 0, 1>>, <<"15", 15, 1>>, <<"15,5", 31, 2>>, <<"100", 100, 1>>}
PreposicoesFaturamento == {"", " do", " de", " sobre"}
Possessivos == {"", " seu"}

TextoFaturamento(numeral, prep, seu) ==
  "multa de " \o numeral \o "%" \o prep \o seu \o " faturamento"

TextosFaturamento ==
  {TextoFaturamento(n[1], prep, seu) :
     n \in NumeraisAteCem, prep \in PreposicoesFaturamento, seu \in Possessivos}

\* arguments of a direct call of an extractor
Textos ==
  {Str(t) : t \in Frases \cup {TextoArquivado, TextoCondenada, TextoOrdem, TextoAmbos, TextoAcima,
                             TextoDois}
                   \cup TextosFaturamento
                   \cup TextosDuracao \cup TextosSemDuracao
                   \cup TextosGravidade \cup TextosSemGravidade}
    \cup {None, Num(Frac(7, 2))}

\* the most rows a table of the later stages has
MaxDocumentos == 11

\* columns a dataset can have
ColunasDataset ==
  {"descricao_tipo_processo", "ano_documento", "descricao_tipo_documento",
   "corpo_texto_formatado", "corpo_texto", "conteudo", "descricao_titulo_documento",
   "decisao_tribunal"}

\* columns of a table handed to the functions of inference.py
ColunasModelo ==
  {"decisao_tribunal", "ano_documento", "descricao_tipo_documento", "dosimetria_gravidade",
   "dosimetria_reincidencia", "texto_completo"}

\* cells of decisao_tribunal, each with the label 'condenação' in one of its items calls for
DecisoesRotuladas ==
  {<<Lista(<<Str("Condenação")>>), 1>>,
   <<Lista(<<Str("Arquivamento"), Str("CONDENAÇÃO AO PAGAMENTO DE MULTA")>>), 1>>,
   <<Lista(<<Str("Arquivamento")>>), 0>>,
   <<Lista(<<Str("condenacao")>>), 0>>,
   <<Lista(<<None, Bool(TRUE)>>), 0>>,
   <<Lista(<<>>), 0>>,
   <<Str("condenação"), 0>>,
   <<None, 0>>}

Decisoes == {d[1] : d \in DecisoesRotuladas}

\* cells of decisao_tribunal in a dataset
DecisoesDataset == {Lista(<<Str("Condenação")>>), None}

\* the cells that tables of unequal cells are made of
DecisoesMistas ==
  {Lista(<<Str("Condenação")>>),
   Lista(<<Str("Arquivamento"), Str("CONDENAÇÃO AO PAGAMENTO DE MULTA")>>),
   Str("condenação"),
   None}

\* the decisao_tribunal column of a table of n rows: none without the column, else n equal
\* cells, or, up to MaxLinhas rows, any cells of DecisoesMistas
ColunasDecisao(colunas, linhas, decisoes) ==
  IF "decisao_tribunal" \notin colunas THEN {<<>>}
  ELSE {[i \in 1..linhas |-> d] : d \in decisoes}
         \cup (IF linhas <= MaxLinhas THEN [1..linhas -> decisoes \cap DecisoesMistas] ELSE {})

\* what scikit-learn raises while fitting, "" if nothing
ExcecoesSklearn == {"", "ValueError"}

(***************************************************************************)
(* State.                                                                  *)
(***************************************************************************)
VARIABLES
  pc,             \* "entrada", "extraido", "reaplicado", "erro"; "chamada" for a direct call;
                  \* "fora" when the run is followed by etapa
  df,             \* the caller's input table
  coluna_texto,   \* the coluna_texto argument of the call
  df_resultado,   \* the local df_resultado when the call returns
  df_condenados,  \* the table the call returned
  df_reaplicado,  \* the table returned by the call on df_condenados
  texto,          \* the argument of a direct call of an extractor
  funcao,         \* the extractor called, "" before the call
  retorno,        \* what it returned
  etapa,          \* the position in processar_dados_cade, or the function of inference.py
                  \* called directly; "fora" outside both
  tabela,         \* the table at that position: column names, number of rows
  excecao,        \* the exception that ended the run, "" if none
  saidas,         \* the files the run wrote
  dados_modelo,   \* (X, y) returned by a direct call of preparar_dados_para_modelo
  resultados_modelo,  \* what treinar_modelo_inferencial returned
  passos_treino,  \* the training steps it ran
  campos_lidos    \* the fields of resultados_modelo the run read after training

vars ==
  <<pc, df, coluna_texto, df_resultado, df_condenados, df_reaplicado, texto, funcao, retorno,
    etapa, tabela, excecao, saidas, dados_modelo, resultados_modelo, passos_treino,
    campos_lidos>>

processo_vars ==
  <<etapa, tabela, excecao, saidas, dados_modelo, resultados_modelo, passos_treino,
    campos_lidos>>

tabela_vars == <<df, coluna_texto, df_resultado, df_condenados, df_reaplicado>>
chamada_vars == <<texto, funcao, retorno>>

(***************************************************************************)
(* The extraction stage over a table.                                      *)
(***************************************************************************)
Init ==
  /\ pc = "entrada"
  /\ \E c \in ColunasEntrada : df = [columns |-> <<"processo", c>>, rows |-> <<>>]
  /\ coluna_texto = ""
  /\ df_resultado = SemTabela
  /\ df_condenados = SemTabela
  /\ df_reaplicado = SemTabela
  /\ texto = None
  /\ funcao = ""
  /\ retorno = None
  /\ etapa = "fora"
  /\ tabela = SemDataset
  /\ excecao = ""
  /\ saidas = {}
  /\ dados_modelo = SemDados
  /\ resultados_modelo = None
  /\ passos_treino = <<>>
  /\ campos_lidos = {}

\* The upstream stage hands over one more document.
AdicionarLinha(v) ==
  /\ pc = "entrada"
  /\ Len(df.rows) < MaxLinhas
  /\ df' = [df EXCEPT !.rows = Append(@,
              [index |-> Len(df.rows),
               cells |-> [c \in {df.columns[1], df.columns[2]} |->
                            IF c = "processo" THEN Num(Frac(Len(df.rows), 1)) ELSE v]])]
  /\ UNCHANGED <<pc, coluna_texto, df_resultado, df_condenados, df_reaplicado>>
  /\ UNCHANGED chamada_vars
  /\ UNCHANGED processo_vars

\* df_processado = aplicar_extracao_ao_dataframe(df, col)
Aplicar(col) ==
  /\ pc = "entrada"
  /\ \E r \in {aplicar_extracao_ao_dataframe(df, col)} :
         /\ pc' = IF r.raised = "" THEN "extraido" ELSE "erro"
         /\ df' = r.df
         /\ coluna_texto' = col
         /\ df_resultado' = r.df_resultado
         /\ df_condenados' = r.df_condenados
  /\ UNCHANGED df_reaplicado
  /\ UNCHANGED chamada_vars
  /\ UNCHANGED processo_vars

\* aplicar_extracao_ao_dataframe(df_processado, col): the stage applied to its own output
Reaplicar ==
  /\ pc = "extraido"
  /\ \E r \in {aplicar_extracao_ao_dataframe(df_condenados, coluna_texto)} :
         /\ pc' = IF r.raised = "" THEN "reaplicado" ELSE "erro"
         /\ df_condenados' = r.df
         /\ df_reaplicado' = r.df_condenados
  /\ UNCHANGED <<df, coluna_texto, df_resultado>>
  /\ UNCHANGED chamada_vars
  /\ UNCHANGED processo_vars

Next ==
  \/ \E v \in Entradas : AdicionarLinha(v)
  \/ \E col \in ColunasTexto : Aplicar(col)
  \/ Reaplicar

Spec == Init /\ [][Next]_vars

(***************************************************************************)
(* Direct calls of the three extractors.                                   *)
(***************************************************************************)
InitExtratores ==
  /\ pc = "chamada"
  /\ texto \in Textos
  /\ funcao = ""
  /\ retorno = None
  /\ df = SemTabela
  /\ coluna_texto = ""
  /\ df_resultado = SemTabela
  /\ df_condenados = SemTabela
  /\ df_reaplicado = SemTabela
  /\ etapa = "fora"
  /\ tabela = SemDataset
  /\ excecao = ""
  /\ saidas = {}
  /\ dados_modelo = SemDados
  /\ resultados_modelo = None
  /\ passos_treino = <<>>
  /\ campos_lidos = {}

ChamarPercentual ==
  /\ pc = "chamada" /\ funcao = ""
  /\ funcao' = "extrair_percentual_multa"
  /\ retorno' = extrair_percentual_multa(texto)
  /\ UNCHANGED <<pc, texto>>
  /\ UNCHANGED tabela_vars
  /\ UNCHANGED processo_vars

ChamarValor ==
  /\ pc = "chamada" /\ funcao = ""
  /\ funcao' = "extrair_valor_multa_reais"
  /\ retorno' = extrair_valor_multa_reais(texto)
  /\ UNCHANGED <<pc, texto>>
  /\ UNCHANGED tabela_vars
  /\ UNCHANGED processo_vars

ChamarDosimetria ==
  /\ pc = "chamada" /\ funcao = ""
  /\ funcao' = "extrair_elementos_dosimetria"
  /\ retorno' = extrair_elementos_dosimetria(texto)
  /\ UNCHANGED <<pc, texto>>
  /\ UNCHANGED tabela_vars
  /\ UNCHANGED processo_vars

NextExtratores == ChamarPercentual \/ ChamarValor \/ ChamarDosimetria

SpecExtratores == InitExtratores /\ [][NextExtratores]_vars

(***************************************************************************)
(* processar_dados_cade, step by step.                                     *)
(***************************************************************************)
extrator_vars ==
  <<pc, df, coluna_texto, df_resultado, df_condenados, df_reaplicado, texto, funcao, retorno>>

\* the state of the variables that follow the extraction stage row by row, unused here
ForaDoExtrator ==
  /\ pc = "fora"
  /\ df = SemTabela
  /\ coluna_texto = ""
  /\ df_resultado = SemTabela
  /\ df_condenados = SemTabela
  /\ df_reaplicado = SemTabela
  /\ texto = None
  /\ funcao = ""
  /\ retorno = None

\* Lines 25-31: the dataset is loaded
InitProcessar ==
  /\ ForaDoExtrator
  /\ etapa = "carregado"
  /\ \E colunas \in SUBSET ColunasDataset, linhas \in 0..MaxDocumentos :
       \E decisoes \in ColunasDecisao(colunas, linhas, DecisoesDataset) :
         tabela = [colunas |-> colunas, linhas |-> linhas, ano_zero |-> FALSE,
                   decisoes |-> decisoes \o <<>>]
  /\ excecao = ""
  /\ saidas = {}
  /\ dados_modelo = SemDados
  /\ resultados_modelo = None
  /\ passos_treino = <<>>
  /\ campos_lidos = {}

\* the run ends with the exception e
Aborta(e) ==
  /\ etapa' = "erro"
  /\ excecao' = e
  /\ UNCHANGED <<tabela, saidas, dados_modelo, resultados_modelo, passos_treino, campos_lidos>>

(* Lines 35-36: df.get('descricao_tipo_processo', '') is the string '' when *)
(* the column is missing, and ''.fillna raises AttributeError; a missing    *)
(* ano_documento becomes a column of zeros.                                 *)
Preparar ==
  /\ etapa = "carregado"
  /\ IF "descricao_tipo_processo" \notin tabela.colunas
     THEN Aborta("AttributeError")
     ELSE /\ etapa' = "preparado"
          /\ tabela' = [colunas |-> tabela.colunas \cup {"ano_documento"},
                        linhas |-> tabela.linhas,
                        ano_zero |-> "ano_documento" \notin tabela.colunas,
                        decisoes |-> tabela.decisoes]
          /\ UNCHANGED <<excecao, saidas, dados_modelo, resultados_modelo, passos_treino, campos_lidos>>
  /\ UNCHANGED extrator_vars

\* Lines 40-43: n rows are administrative processes after 2012; none when every year is 0
FiltrarAdministrativos(n) ==
  /\ etapa = "preparado"
  /\ n <= tabela.linhas
  /\ tabela.ano_zero => n = 0
  /\ etapa' = "administrativos"
  /\ tabela' = manter(tabela, n)
  /\ UNCHANGED <<excecao, saidas, dados_modelo, resultados_modelo, passos_treino, campos_lidos>>
  /\ UNCHANGED extrator_vars

\* Lines 48-52: df_admin['descricao_tipo_documento'] raises KeyError when the column is missing
FiltrarVotos(n) ==
  /\ etapa = "administrativos"
  /\ IF "descricao_tipo_documento" \notin tabela.colunas
     THEN n = 0 /\ Aborta("KeyError")
     ELSE /\ n <= tabela.linhas
          /\ etapa' = "votos"
          /\ tabela' = manter(tabela, n)
          /\ UNCHANGED <<excecao, saidas, dados_modelo, resultados_modelo, passos_treino, campos_lidos>>
  /\ UNCHANGED extrator_vars

\* Lines 57-69
ConcatenarTexto ==
  /\ etapa = "votos"
  /\ IF Len(existentes(colunas_texto_candidatas, tabela.colunas)) = 0
     THEN Aborta("ValueError")
     ELSE /\ etapa' = "texto"
          /\ tabela' = [tabela EXCEPT !.colunas = @ \cup {"texto_completo"}]
          /\ UNCHANGED <<excecao, saidas, dados_modelo, resultados_modelo, passos_treino, campos_lidos>>
  /\ UNCHANGED extrator_vars

\* Lines 76-82: the extraction keeps n rows and adds its columns; df_processado is saved
Extrair(n) ==
  /\ etapa = "texto"
  /\ IF "texto_completo" \notin tabela.colunas
     THEN n = 0 /\ Aborta("KeyError")
     ELSE /\ n <= tabela.linhas
          /\ etapa' = "extraido"
          /\ tabela' = [manter(tabela, n) EXCEPT !.colunas = @ \cup ColunasDaExtracao]
          /\ saidas' = saidas \cup {"df_processado.csv"}
          /\ UNCHANGED <<excecao, dados_modelo, resultados_modelo, passos_treino, campos_lidos>>
  /\ UNCHANGED extrator_vars

\* Lines 86-98
GerarEstatisticas ==
  /\ etapa = "extraido"
  /\ etapa' = "estatisticas"
  /\ saidas' = saidas \cup ArquivosEstatisticas
  /\ UNCHANGED <<tabela, excecao, dados_modelo, resultados_modelo, passos_treino, campos_lidos>>
  /\ UNCHANGED extrator_vars

\* Lines 101-104
GerarVisualizacoes ==
  /\ etapa = "estatisticas"
  /\ etapa' = "visualizacoes"
  /\ saidas' = saidas \cup {"visualizacoes/"}
  /\ UNCHANGED <<tabela, excecao, dados_modelo, resultados_modelo, passos_treino, campos_lidos>>
  /\ UNCHANGED extrator_vars

\* Line 108
TreinarModelo(excecao_sklearn) ==
  /\ etapa = "visualizacoes"
  /\ \E r \in {treinar_modelo_inferencial(tabela, excecao_sklearn)} :
       /\ etapa' = IF r.raised = "" THEN "modelo" ELSE "erro"
       /\ excecao' = r.raised
       /\ resultados_modelo' = r.retorno
       /\ passos_treino' = r.passos
  /\ UNCHANGED <<tabela, saidas, dados_modelo, campos_lidos>>
  /\ UNCHANGED extrator_vars

\* Lines 111-134: the status check, then the return
SalvarResultadosDoModelo ==
  /\ etapa = "modelo"
  /\ \E r \in {salvar_resultados_do_modelo(resultados_modelo)} :
       /\ etapa' = IF r.raised = "" THEN "fim" ELSE "erro"
       /\ excecao' = r.raised
       /\ saidas' = saidas \cup r.arquivos
       /\ campos_lidos' = r.lidos
  /\ UNCHANGED <<tabela, dados_modelo, resultados_modelo, passos_treino>>
  /\ UNCHANGED extrator_vars

NextProcessar ==
  \/ Preparar
  \/ \E n \in 0..MaxDocumentos : FiltrarAdministrativos(n)
  \/ \E n \in 0..MaxDocumentos : FiltrarVotos(n)
  \/ ConcatenarTexto
  \/ \E n \in 0..MaxDocumentos : Extrair(n)
  \/ GerarEstatisticas
  \/ GerarVisualizacoes
  \/ \E e \in ExcecoesSklearn : TreinarModelo(e)
  \/ SalvarResultadosDoModelo

SpecProcessar == InitProcessar /\ [][NextProcessar]_vars

(***************************************************************************)
(* Direct calls of the functions of inference.py.                          *)
(***************************************************************************)
InitInferencia ==
  /\ ForaDoExtrator
  /\ etapa = "chamada"
  /\ \E colunas \in SUBSET ColunasModelo, linhas \in 0..MaxDocumentos :
       \E decisoes \in ColunasDecisao(colunas, linhas, Decisoes) :
         tabela = [colunas |-> colunas, linhas |-> linhas, ano_zero |-> FALSE,
                   decisoes |-> decisoes \o <<>>]
  /\ excecao = ""
  /\ saidas = {}
  /\ dados_modelo = SemDados
  /\ resultados_modelo = None
  /\ passos_treino = <<>>
  /\ campos_lidos = {}

ChamarPreparar ==
  /\ etapa = "chamada"
  /\ etapa' = "preparar_dados_para_modelo"
  /\ \E r \in {preparar_dados_para_modelo(tabela)} :
       /\ dados_modelo' = [X |-> r.X, y |-> r.y]
       /\ tabela' = r.df
  /\ UNCHANGED <<excecao, saidas, resultados_modelo, passos_treino, campos_lidos>>
  /\ UNCHANGED extrator_vars

ChamarTreinar(excecao_sklearn) ==
  /\ etapa = "chamada"
  /\ etapa' = "treinar_modelo_inferencial"
  /\ \E r \in {treinar_modelo_inferencial(tabela, excecao_sklearn)} :
       /\ excecao' = r.raised
       /\ resultados_modelo' = r.retorno
       /\ passos_treino' = r.passos
  /\ UNCHANGED <<tabela, saidas, dados_modelo, campos_lidos>>
  /\ UNCHANGED extrator_vars

NextInferencia == ChamarPreparar \/ \E e \in ExcecoesSklearn : ChamarTreinar(e)

SpecInferencia == InitInferencia /\ [][NextInferencia]_vars

(***************************************************************************)
(* Properties.                                                             *)
(***************************************************************************)
Extraido == pc \in {"extraido", "reaplicado"}

\* the name of the column of the input table that holds the text
ColunaDeEntrada == df.columns[2]

\* the position in the returned table of the row with index label idx, 0 if dropped
PosicaoEmCondenados(idx) ==
  IF \E j \in 1..Len(df_condenados.rows) : df_condenados.rows[j].index = idx
  THEN CHOOSE j \in 1..Len(df_condenados.rows) : df_condenados.rows[j].index = idx
  ELSE 0

Retida(i) == PosicaoEmCondenados(df.rows[i].index) # 0

LinhaRetida(i) == df_condenados.rows[PosicaoEmCondenados(df.rows[i].index)]

SemPadrao(v) == extrair_percentual_multa(v) = None /\ extrair_valor_multa_reais(v) = None

(* C1: a row of the input is in the table returned by                      *)
(* aplicar_extracao_ao_dataframe if and only if its percentual_multa or    *)
(* its valor_multa_reais is present; the returned rows are input rows, in  *)
(* input order, with the derived cells; a row whose text matches no        *)
(* percentage and no currency pattern is dropped.                          *)
AdmissaoSseEvidencia ==
  Extraido =>
    /\ \A i \in 1..Len(df.rows) :
         /\ Retida(i) <=> (\/ notnull(df_resultado.rows[i].cells["percentual_multa"])
                           \/ notnull(df_resultado.rows[i].cells["valor_multa_reais"]))
         /\ Retida(i) => LinhaRetida(i) = df_resultado.rows[i]
         /\ (coluna_texto = ColunaDeEntrada /\ SemPadrao(df.rows[i].cells[coluna_texto]))
              => ~Retida(i)
    /\ \A j \in 1..Len(df_condenados.rows) :
         \E i \in 1..Len(df.rows) : df.rows[i].index = df_condenados.rows[j].index
    /\ \A j, k \in 1..Len(df_condenados.rows) :
         j < k => df_condenados.rows[j].index < df_condenados.rows[k].index

AdmissaoWitness ==
  /\ pc = "extraido"
  /\ Len(df.rows) = 2
  /\ df.rows[1].cells[coluna_texto] = Str(TextoArquivado)
  /\ df.rows[2].cells[coluna_texto] = Str(TextoMilhao)
  /\ ~Retida(1)
  /\ Retida(2)

SeisCampos == {"reincidencia", "boa_fe", "ma_fe", "cooperacao", "gravidade", "duracao_conduta"}
QuatroBooleanos == {"reincidencia", "boa_fe", "ma_fe", "cooperacao"}

(* C2: extrair_elementos_dosimetria returns for every input, a non-string  *)
(* one included, a record with all six fields; for a non-string input the  *)
(* four booleans are false and gravidade and duracao_conduta are absent.   *)
DosimetriaTotal ==
  funcao = "extrair_elementos_dosimetria" =>
    /\ isinstance_dict(retorno)
    /\ dict_keys(retorno) = SeisCampos
    /\ ~isinstance_str(texto) =>
         /\ \A c \in QuatroBooleanos : dict_get(retorno, c) = Bool(FALSE)
         /\ dict_get(retorno, "gravidade") = None
         /\ dict_get(retorno, "duracao_conduta") = None

(* C3: for the text 'multa de R$ 1.234,56' extrair_valor_multa_reais       *)
(* returns a candidate equal to 1234.56.                                   *)
MilharComDecimal ==
  (funcao = "extrair_valor_multa_reais" /\ texto = Str(TextoMilhar)) =>
    /\ isinstance_list(retorno)
    /\ \E i \in 1..Len(retorno.v) : retorno.v[i] = Frac(123456, 100)

(* C4: every value in the list returned by extrair_percentual_multa is in  *)
(* [0, 100]; a captured numeral above 100 is not in the list, and the call *)
(* returns (the other candidates of the text are kept).                    *)
PercentualEntreZeroECem ==
  funcao = "extrair_percentual_multa" =>
    /\ retorno.k \in {"none", "list"}
    /\ isinstance_list(retorno) =>
         \A i \in 1..Len(retorno.v) :
           /\ retorno.v[i].n >= 0 /\ retorno.v[i].d > 0
           /\ retorno.v[i].n <= 100 * retorno.v[i].d
    /\ texto = Str(TextoAcima) => retorno = None
    /\ texto = Str(TextoAcimaESete) => retorno = Lista(<<Frac(7, 1), Frac(7, 1)>>)

PercentualAcimaWitness ==
  /\ funcao = "extrair_percentual_multa"
  /\ texto = Str(TextoAcimaESete)
  /\ retorno = Lista(<<Frac(7, 1), Frac(7, 1)>>)

(* C5: extrair_percentual_multa and extrair_valor_multa_reais return None  *)
(* when the input is not a string or no candidate was found, and a         *)
(* non-empty list otherwise; never an empty list.                          *)
AusenteOuListaNaoVazia ==
  funcao \in {"extrair_percentual_multa", "extrair_valor_multa_reais"} =>
    /\ retorno.k \in {"none", "list"}
    /\ isinstance_list(retorno) => Len(retorno.v) > 0
    /\ ~isinstance_str(texto) => retorno = None
    /\ texto = Str(TextoArquivado) => retorno = None

AusenteWitness ==
  /\ funcao = "extrair_valor_multa_reais"
  /\ texto = Str(TextoArquivado)
  /\ retorno = None

(* C6: the row with the text 'a empresa foi condenada ao pagamento de      *)
(* multa de 15,5% de seu faturamento, havendo reincidência e boa-fé' in    *)
(* the column texto_completo is retained with percentual_multa = 15.5,     *)
(* dosimetria_reincidencia and dosimetria_boa_fe true, dosimetria_ma_fe    *)
(* false.                                                                  *)
CondenadaRetida ==
  (Extraido /\ coluna_texto = "texto_completo") =>
    \A i \in 1..Len(df.rows) :
      df.rows[i].cells["texto_completo"] = Str(TextoCondenada) =>
        /\ Retida(i)
        /\ LinhaRetida(i).cells["percentual_multa"] = Num(Frac(155, 10))
        /\ LinhaRetida(i).cells["dosimetria_reincidencia"] = Bool(TRUE)
        /\ LinhaRetida(i).cells["dosimetria_boa_fe"] = Bool(TRUE)
        /\ LinhaRetida(i).cells["dosimetria_ma_fe"] = Bool(FALSE)

CondenadaWitness ==
  /\ pc = "extraido"
  /\ coluna_texto = "texto_completo"
  /\ \E i \in 1..Len(df.rows) :
       /\ df.rows[i].cells["texto_completo"] = Str(TextoCondenada)
       /\ Retida(i)
       /\ LinhaRetida(i).cells["percentual_multa"] = Num(Frac(31, 2))

(* C7: for the text 'multa no valor de R$ 1.500.000,00' in the column      *)
(* texto_completo, valor_multa_reais, the first element of the list        *)
(* extrair_valor_multa_reais returned, is 1500000 and the row is retained. *)
MilhaoRetido ==
  (Extraido /\ coluna_texto = "texto_completo") =>
    \A i \in 1..Len(df.rows) :
      df.rows[i].cells["texto_completo"] = Str(TextoMilhao) =>
        /\ Retida(i)
        /\ isinstance_list(LinhaRetida(i).cells["valores_multa_reais"])
        /\ LinhaRetida(i).cells["valores_multa_reais"].v[1] = Frac(1500000, 1)
        /\ LinhaRetida(i).cells["valor_multa_reais"] = Num(Frac(150000000, 100))

MilhaoWitness ==
  /\ pc = "extraido"
  /\ coluna_texto = "texto_completo"
  /\ \E i \in 1..Len(df.rows) :
       /\ df.rows[i].cells["texto_completo"] = Str(TextoMilhao)
       /\ Retida(i)
       /\ LinhaRetida(i).cells["valor_multa_reais"] = Num(Frac(1500000, 1))

\* the values of pattern k's matches over t that are at most 100, in text order
ValidosDoPadrao(k, t) ==
  LET ms == re_findall(padroes_percentual[k], t)
      vs == [i \in 1..Len(ms) |-> float(replace(ms[i], ",", "."))]
  IN  SelectSeq(vs, LAMBDA q : Leq(q, 100))

RECURSIVE ValidosAte(_, _)
ValidosAte(k, t) == IF k = 0 THEN <<>> ELSE ValidosAte(k - 1, t) \o ValidosDoPadrao(k, t)

(* C8: the list returned by extrair_percentual_multa is the concatenation, *)
(* in pattern order, of each pattern's valid matches over the lower-cased  *)
(* text, each pattern's matches in text order; a mention matched by k      *)
(* patterns is k times in the list, so the order is the patterns' and not  *)
(* the text's: '10% de seu faturamento e multa de 20% de seu faturamento'  *)
(* gives 20, 10, 20.                                                       *)
ListaNaOrdemDosPadroes ==
  (funcao = "extrair_percentual_multa" /\ isinstance_str(texto)) =>
    /\ LET todos == ValidosAte(Len(padroes_percentual), lower(texto.v))
       IN  retorno = IF Len(todos) = 0 THEN None ELSE Lista(todos)
    /\ texto = Str(TextoOrdem) => retorno = Lista(<<Frac(20, 1), Frac(10, 1), Frac(20, 1)>>)

OrdemDosPadroesWitness ==
  /\ funcao = "extrair_percentual_multa"
  /\ texto = Str(TextoOrdem)
  /\ retorno = Lista(<<Frac(20, 1), Frac(10, 1), Frac(20, 1)>>)

PrimarioDaLista(primario, lista) ==
  /\ (isinstance_list(lista) /\ Len(lista.v) > 0) => primario = Num(lista.v[1])
  /\ ~(isinstance_list(lista) /\ Len(lista.v) > 0) => primario = None
  /\ notnull(primario) <=> isinstance_list(lista)

(* C9: in every row processed, percentual_multa is the first element of    *)
(* the row's percentuais_multa list when the list is present and non-empty *)
(* and absent otherwise, and valor_multa_reais likewise of                 *)
(* valores_multa_reais; a primary value is present exactly when its list   *)
(* is.                                                                     *)
PrimarioEhPrimeiro ==
  Extraido =>
    \A i \in 1..Len(df_resultado.rows) :
      /\ PrimarioDaLista(df_resultado.rows[i].cells["percentual_multa"],
                         df_resultado.rows[i].cells["percentuais_multa"])
      /\ PrimarioDaLista(df_resultado.rows[i].cells["valor_multa_reais"],
                         df_resultado.rows[i].cells["valores_multa_reais"])

PrimarioWitness ==
  /\ pc = "extraido"
  /\ \E i \in 1..Len(df_resultado.rows) :
       /\ df_resultado.rows[i].cells["percentuais_multa"] = Lista(<<Frac(10, 1), Frac(20, 1)>>)
       /\ df_resultado.rows[i].cells["percentual_multa"] = Num(Frac(10, 1))
       /\ df_resultado.rows[i].cells["valor_multa_reais"] = None

\* the columns aplicar_extracao_ao_dataframe writes
ColunasEscritas ==
  {"percentuais_multa", "percentual_multa", "valores_multa_reais", "valor_multa_reais",
   "elementos_dosimetria"} \cup {coluna_dosimetria(ElementosDosimetria[i]) : i \in 1..6}

(* C10 as claimed: applying aplicar_extracao_ao_dataframe to its own       *)
(* output, with the same text column, gives a table equal to that output.  *)
ReaplicarIgual == pc = "reaplicado" => df_reaplicado = df_condenados

(* C10, amended: applying aplicar_extracao_ao_dataframe to its own output, *)
(* with the same text column, gives a table equal to that output when the  *)
(* text column is not one of the columns the function writes.              *)
ReaplicarIgualSemColisao ==
  (pc = "reaplicado" /\ coluna_texto \notin ColunasEscritas) => df_reaplicado = df_condenados

ReaplicarWitness ==
  /\ pc = "reaplicado"
  /\ coluna_texto \notin ColunasEscritas
  /\ Len(df.rows) = 2
  /\ Len(df_condenados.rows) = 1
  /\ df_reaplicado = df_condenados

\* the names of the columns of a table
Nomes(t) == {t.columns[i] : i \in 1..Len(t.columns)}

DezColunasDerivadas ==
  {"percentuais_multa", "percentual_multa", "valores_multa_reais", "valor_multa_reais",
   "dosimetria_reincidencia", "dosimetria_boa_fe", "dosimetria_ma_fe", "dosimetria_cooperacao",
   "dosimetria_gravidade", "dosimetria_duracao_conduta"}

(* C11: the columns of the table aplicar_extracao_ao_dataframe returns are *)
(* the input table's columns and the ten derived columns percentuais_multa,*)
(* percentual_multa, valores_multa_reais, valor_multa_reais and the six    *)
(* dosimetria_ columns, and no other.                                      *)
SoDezColunasDerivadas ==
  pc = "extraido" => Nomes(df_condenados) = Nomes(df) \cup DezColunasDerivadas

(* C12: aplicar_extracao_ao_dataframe does not change its input table: the *)
(* caller's table has the same columns, rows and cells after the call,     *)
(* whether the call returned or raised.                                    *)
EntradaIntacta ==
  [][/\ (pc = "entrada" /\ pc' \in {"extraido", "erro"}) => df' = df
     /\ (pc = "extraido" /\ pc' \in {"reaplicado", "erro"}) => df_condenados' = df_condenados]_vars

EntradaIntactaWitness ==
  /\ pc = "reaplicado"
  /\ Len(df.rows) = 2
  /\ df.columns = <<"processo", "texto_completo">>
  /\ Len(df_condenados.rows) = 2
  /\ Len(df_condenados.columns) > 2
  /\ df_reaplicado = df_condenados

(* C13: when the text column is not in the input table the call raises: no *)
(* table is returned, neither an empty nor a partly derived one, and the   *)
(* input table is unchanged; a call on a table that has the column does    *)
(* not end this way.                                                       *)
ColunaAusenteFalha ==
  [][(pc = "entrada" /\ pc' # "entrada") =>
       IF has_column(df, coluna_texto')
       THEN pc' = "extraido"
       ELSE /\ pc' = "erro"
            /\ df' = df
            /\ df_resultado' = SemTabela
            /\ df_condenados' = SemTabela]_vars

ColunaAusenteWitness ==
  /\ pc = "erro"
  /\ Len(df.rows) = 2
  /\ df.columns = <<"processo", "texto_completo">>
  /\ coluna_texto = "percentuais_multa"
  /\ df_condenados = SemTabela

\* the derived cells of a row that carries no evidence
SemEvidencia(row) ==
  /\ row.cells["percentuais_multa"] = None
  /\ row.cells["percentual_multa"] = None
  /\ row.cells["valores_multa_reais"] = None
  /\ row.cells["valor_multa_reais"] = None
  /\ \A i \in 1..Len(ElementosDosimetria) :
       row.cells[coluna_dosimetria(ElementosDosimetria[i])] = None

(* C14: on a table that has the text column the call completes whatever    *)
(* the rows' text values are; a row whose text is not a string (None, a    *)
(* number) gets no candidate list, no primary value and no dosimetry value *)
(* and is not retained, and the rows with text beside it are processed.    *)
LinhaRuimNaoAborta ==
  /\ pc = "erro" => ~has_column(df, coluna_texto)
  /\ (pc = "extraido" /\ coluna_texto = ColunaDeEntrada) =>
       /\ Len(df_resultado.rows) = Len(df.rows)
       /\ \A i \in 1..Len(df.rows) :
            IF isinstance_str(df.rows[i].cells[coluna_texto])
            THEN coluna_texto \notin ColunasEscritas =>
                   (Retida(i) <=> ~SemPadrao(df.rows[i].cells[coluna_texto]))
            ELSE SemEvidencia(df_resultado.rows[i]) /\ ~Retida(i)

LinhaRuimWitness ==
  /\ pc = "extraido"
  /\ coluna_texto = "texto_completo"
  /\ Len(df.rows) = 2
  /\ df.rows[1].cells["texto_completo"] = Num(Frac(7, 2))
  /\ df.rows[2].cells["texto_completo"] = Str(TextoMilhao)
  /\ SemEvidencia(df_resultado.rows[1])
  /\ ~Retida(1)
  /\ Retida(2)

\* the texts of Textos that are not built around a duration phrase
SemFraseDeDuracao ==
  {x \in Textos : IF isinstance_str(x) THEN x.v \notin TextosDuracao ELSE FALSE}

(* C15: for a text with 'conduta por N <unit>' or 'conduta durante N       *)
(* <unit>' duracao_conduta is N*12 for ano/anos, N for meses and N/30 for  *)
(* dia/dias (12 meses -> 12, 1 ano -> 12, 30 dias -> 1); the leftmost such *)
(* phrase decides; it is absent when the text has no such phrase.          *)
DuracaoEmMeses ==
  funcao = "extrair_elementos_dosimetria" =>
    /\ \A prep \in PreposicoesDuracao, n \in NumeraisDuracao, u \in UnidadesDuracao,
          resto \in RestosDuracao :
         texto = Str(TextoDuracao(prep, n[1], u[1], resto)) =>
           dict_get(retorno, "duracao_conduta") = Num(Frac(n[2] * u[2], u[3]))
    /\ texto \in SemFraseDeDuracao => dict_get(retorno, "duracao_conduta") = None

DuracaoEmMesesWitness ==
  /\ funcao = "extrair_elementos_dosimetria"
  /\ texto = Str(TextoDuracao("durante", "45", "dias", " e conduta por 7 meses"))
  /\ dict_get(retorno, "duracao_conduta") = Num(Frac(3, 2))

\* the texts of Textos in which no adjective of the pattern stands right before 'gravidade'
SemFraseDeGravidade ==
  {x \in Textos : IF isinstance_str(x) THEN x.v \notin TextosGravidade ELSE FALSE}

(* C16: gravidade is absent or one of alta, elevada, grave, baixa, leve,   *)
(* média, moderada: the adjective right before 'gravidade' at the leftmost *)
(* match in the lower-cased text, as written ('alta' and 'elevada' stay    *)
(* distinct); it is absent exactly when the text has no such phrase.       *)
GravidadeDoConjuntoFechado ==
  (funcao = "extrair_elementos_dosimetria" /\ isinstance_str(texto)) =>
    /\ dict_get(retorno, "gravidade") \in {None} \cup {Str(adj) : adj \in Adjetivos}
    /\ \A antes \in AntesGravidade, adj \in Adjetivos, esp \in EspacosGravidade,
          resto \in RestosGravidade :
         texto = Str(TextoGravidade(antes, adj, esp, resto)) =>
           dict_get(retorno, "gravidade") = Str(adj)
    /\ texto = Str("ALTA GRAVIDADE") => dict_get(retorno, "gravidade") = Str("alta")
    /\ texto = Str("MÉDIA GRAVIDADE") => dict_get(retorno, "gravidade") = Str("média")
    /\ texto \in SemFraseDeGravidade <=> dict_get(retorno, "gravidade") = None

GravidadeWitness ==
  /\ funcao = "extrair_elementos_dosimetria"
  /\ texto = Str(TextoGravidade("CONDUTA DE ", "média", "  ", " e não de leve gravidade"))
  /\ dict_get(retorno, "gravidade") = Str("média")

(* C20: every value in the list extrair_valor_multa_reais returns is       *)
(* non-negative and no upper bound is applied: an amount above 100, or a   *)
(* very large one, is kept in the list.                                    *)
ValorSemLimiteSuperior ==
  funcao = "extrair_valor_multa_reais" =>
    /\ isinstance_list(retorno) =>
         \A i \in 1..Len(retorno.v) : retorno.v[i].n >= 0 /\ retorno.v[i].d > 0
    /\ texto = Str("multa de R$ 101") => retorno = Lista(<<Frac(101, 1)>>)
    /\ texto = Str("multa de R$ 100,5") => retorno = Lista(<<Frac(1005, 10)>>)
    /\ texto = Str("multa de R$ 1.500.000,00") => retorno = Lista(<<Frac(1500000, 1)>>)

ValorAcimaDeCemWitness ==
  /\ funcao = "extrair_valor_multa_reais"
  /\ texto = Str("multa de R$ 1.500.000,00")
  /\ isinstance_list(retorno)
  /\ \E i \in 1..Len(retorno.v) : ~Leq(retorno.v[i], 100)

\* the call on the table that holds row i of the input alone
SoALinha(i) ==
  aplicar_extracao_ao_dataframe([columns |-> df.columns, rows |-> <<df.rows[i]>>], coluna_texto)

(* C18: the derived values of a row and whether it is retained depend on   *)
(* the row's own text only: each row of a table gets the candidate lists,  *)
(* primary values, dosimetry columns and admission it gets in the table    *)
(* that holds it alone, whatever the other rows, their number and their    *)
(* order; the candidate lists and the dosimetry are those of the           *)
(* extractors on the row's text.                                           *)
LinhasIndependentes ==
  pc = "extraido" =>
    \A i \in 1..Len(df.rows) :
      /\ \A so \in {SoALinha(i)} :
           /\ so.raised = ""
           /\ df_resultado.rows[i] = so.df_resultado.rows[1]
           /\ Retida(i) <=> Len(so.df_condenados.rows) = 1
           /\ Retida(i) => LinhaRetida(i) = so.df_condenados.rows[1]
      /\ coluna_texto \notin ColunasEscritas =>
           /\ df_resultado.rows[i].cells["percentuais_multa"]
                = extrair_percentual_multa(df.rows[i].cells[coluna_texto])
           /\ df_resultado.rows[i].cells["valores_multa_reais"]
                = extrair_valor_multa_reais(df.rows[i].cells[coluna_texto])
           /\ df_resultado.rows[i].cells["elementos_dosimetria"]
                = extrair_elementos_dosimetria(df.rows[i].cells[coluna_texto])

LinhasIndependentesWitness ==
  /\ pc = "extraido"
  /\ coluna_texto = "texto_completo"
  /\ Len(df.rows) = 2
  /\ df.rows[1].cells["texto_completo"] = Str(TextoCondenada)
  /\ df.rows[2].cells["texto_completo"] = Str(TextoArquivado)
  /\ Retida(1)
  /\ ~Retida(2)
  /\ df_resultado.rows[1].cells["percentual_multa"] = Num(Frac(31, 2))
  /\ df_resultado.rows[2].cells["percentual_multa"] = None

FeaturesDoModelo ==
  {"ano_documento", "dosimetria_duracao_conduta", "descricao_tipo_documento",
   "dosimetria_gravidade", "dosimetria_reincidencia", "dosimetria_boa_fe", "dosimetria_ma_fe",
   "dosimetria_cooperacao"}

\* feature assembly yields no table and label, or fewer than 10 rows
DadosInsuficientes(t) ==
  \/ "decisao_tribunal" \notin t.colunas
  \/ t.colunas \cap FeaturesDoModelo = {}
  \/ t.linhas < 10

(* C17: when feature assembly yields no feature table or label, or fewer   *)
(* than 10 rows, treinar_modelo_inferencial raises nothing and returns a   *)
(* result with status 'erro' and a message and none of pipeline, accuracy, *)
(* report, confusion_matrix, feature_importance; no training step runs.    *)
InsuficienteEhResultado ==
  (etapa = "treinar_modelo_inferencial" /\ DadosInsuficientes(tabela)) =>
    /\ excecao = ""
    /\ isinstance_dict(resultados_modelo)
    /\ dict_keys(resultados_modelo) = {"status", "mensagem"}
    /\ dict_get(resultados_modelo, "status") = Str("erro")
    /\ isinstance_str(dict_get(resultados_modelo, "mensagem"))
    /\ passos_treino = <<>>

InsuficienteWitness ==
  /\ etapa = "treinar_modelo_inferencial"
  /\ "decisao_tribunal" \in tabela.colunas
  /\ "dosimetria_gravidade" \in tabela.colunas
  /\ tabela.linhas = 9
  /\ dict_get(resultados_modelo, "status") = Str("erro")
  /\ passos_treino = <<>>

(* C19: when the dataset has none of the candidate text columns            *)
(* corpo_texto_formatado, corpo_texto, conteudo,                           *)
(* descricao_titulo_documento, descricao_tipo_documento, the run of        *)
(* processar_dados_cade ends with the ValueError of the concatenation      *)
(* step, and extraction, statistics and training do not run (stated for a  *)
(* dataset that has the descricao_tipo_processo column step 1 reads).      *)
SemCandidataErroDeConfiguracao ==
  (/\ etapa \in {"erro", "fim"}
   /\ "descricao_tipo_processo" \in tabela.colunas
   /\ \A i \in 1..Len(colunas_texto_candidatas) :
        colunas_texto_candidatas[i] \notin tabela.colunas) =>
    /\ etapa = "erro"
    /\ excecao = "ValueError"
    /\ saidas = {}
    /\ passos_treino = <<>>

(***************************************************************************)
(* C21: a percentage numeral written with a decimal comma parses as the    *)
(* same numeral written with a decimal point.                              *)
(***************************************************************************)
\* the suffixes in which the numeral is immediately followed by a percent sign
SufixosPercentuais == {suf \in Sufixos : suf # ""}

\* the numerals written with a decimal comma
NumeraisComVirgula == {num \in Numerais : contains(num, ",")}

\* the text that differs from pre \o num \o suf only in the decimal separator of num
ComPonto(pre, num, suf) == Str(pre \o replace(num, ",", ".") \o suf)

\* C21: after extrair_percentual_multa ran on a text whose percentage numeral has a decimal
\* comma, the list it returned is the list it returns for the text that has a decimal point in
\* that place, and when the numeral is "12,5" a list that is present holds the value 12.5
VirgulaIgualAPonto ==
  funcao = "extrair_percentual_multa" =>
    \A pre \in Prefixos, num \in NumeraisComVirgula, suf \in SufixosPercentuais :
      texto = Str(pre \o num \o suf) =>
        /\ retorno = extrair_percentual_multa(ComPonto(pre, num, suf))
        /\ (num = "12,5" /\ retorno # None) =>
             \E i \in 1..Len(retorno.v) : retorno.v[i] = Frac(25, 2)

VirgulaIgualAPontoWitness ==
  /\ funcao = "extrair_percentual_multa"
  /\ texto = Str("multa de 12,5% de seu faturamento")
  /\ retorno = Lista(<<Frac(25, 2), Frac(25, 2)>>)
  /\ retorno = extrair_percentual_multa(Str("multa de 12.5% de seu faturamento"))

(***************************************************************************)
(* C22: every phrase "multa de N% [do|de|sobre] [seu] faturamento" is      *)
(* recognised.                                                             *)
(***************************************************************************)
\* C22: after extrair_percentual_multa ran on "multa de N% [do|de|sobre] [seu] faturamento",
\* N <= 100, the preposition and "seu" each present or not, the returned list is present and
\* holds N
CadaFormaReconhecida ==
  funcao = "extrair_percentual_multa" =>
    \A n \in NumeraisAteCem, prep \in PreposicoesFaturamento, seu \in Possessivos :
      texto = Str(TextoFaturamento(n[1], prep, seu)) =>
        /\ retorno # None
        /\ \E i \in 1..Len(retorno.v) : retorno.v[i] = Frac(n[2], n[3])

(***************************************************************************)
(* C23: the pipeline uses the model output only after the status check and *)
(* only on success.                                                        *)
(***************************************************************************)
\* the status of the result of the training, None before it
StatusDoModelo ==
  IF isinstance_dict(resultados_modelo) THEN dict_get(resultados_modelo, "status") ELSE None

\* the positions of the run after the extraction
DepoisDaExtracao == {"extraido", "estatisticas", "visualizacoes", "modelo", "fim"}

\* what the stages after the extraction leave behind
SaidasDepoisDaExtracao == ArquivosEstatisticas \cup {"visualizacoes/"} \cup ArquivosModelo

ModeloSoAposSucessoEstado ==
  /\ saidas \cap ArquivosModelo # {} => StatusDoModelo = Str("sucesso")
  /\ campos_lidos # {} => "status" \in campos_lidos
  /\ StatusDoModelo = Str("erro") =>
       /\ excecao = ""
       /\ saidas \cap ArquivosModelo = {}
       /\ campos_lidos \cap {"accuracy", "report"} = {}
       /\ \A r \in {visualizar_importancia_features(resultados_modelo, caminho_importancia),
                    visualizar_matriz_confusao(resultados_modelo, caminho_matriz)} :
            r.raised = "" /\ r.retorno = None /\ r.arquivos = {}
  /\ (saidas \cap SaidasDepoisDaExtracao # {} \/ resultados_modelo # None) =>
       /\ "df_processado.csv" \in saidas
       /\ ColunasDaExtracao \subseteq tabela.colunas

ModeloSoAposSucessoPasso ==
  /\ (etapa = "modelo" /\ StatusDoModelo = Str("erro")) =>
       etapa' = "fim" /\ excecao' = "" /\ saidas' = saidas
  /\ etapa \in DepoisDaExtracao => tabela' = tabela
  /\ saidas' \cap SaidasDepoisDaExtracao # saidas \cap SaidasDepoisDaExtracao =>
       etapa \in DepoisDaExtracao
  /\ resultados_modelo' # resultados_modelo => etapa = "visualizacoes"

\* C23: in processar_dados_cade the two model plots and the classification report are written
\* only when the training returned status 'sucesso'; with status 'erro' none of them is
\* written, accuracy and report are not read, the run ends normally and the two visualizar_
\* functions return None without a file; statistics, visualizations and training run after
\* the extraction, on the table it returned
ModeloSoAposSucesso == [](ModeloSoAposSucessoEstado) /\ [][ModeloSoAposSucessoPasso]_vars

ModeloSoAposSucessoWitness ==
  /\ etapa = "fim"
  /\ StatusDoModelo = Str("erro")
  /\ excecao = ""
  /\ ArquivosEstatisticas \subseteq saidas
  /\ saidas \cap ArquivosModelo = {}
  /\ campos_lidos = {"status", "mensagem"}

(***************************************************************************)
(* C24: the label preparar_dados_para_modelo builds is total on the rows.  *)
(***************************************************************************)
\* the positions of the rows of the input table, in order
LinhasDaEntrada == [i \in 1..tabela.linhas |-> i]

\* the label the decision cell d calls for
Rotulo(d) == Inteiro((CHOOSE r \in DecisoesRotuladas : r[1] = d)[2])

RotuloTotalEstado ==
  etapa = "preparar_dados_para_modelo" =>
    IF "decisao_tribunal" \in tabela.colunas /\ tabela.colunas \cap FeaturesDoModelo # {}
    THEN /\ dados_modelo.X # None /\ dados_modelo.y # None
         /\ dados_modelo.X.v.indice = LinhasDaEntrada
         /\ dados_modelo.y.v.indice = LinhasDaEntrada
         /\ Len(dados_modelo.y.v.valores) = tabela.linhas
         /\ \A i \in 1..tabela.linhas :
              /\ dados_modelo.y.v.valores[i] \in {Inteiro(0), Inteiro(1)}
              /\ dados_modelo.y.v.valores[i] = Rotulo(tabela.decisoes[i])
    ELSE dados_modelo = SemDados

RotuloTotalPasso == etapa' = "preparar_dados_para_modelo" => tabela' = tabela

\* C24: after preparar_dados_para_modelo ran on a table with decisao_tribunal and at least one
\* feature column, X and y have one entry per input row, in input order, and each y is 0 or 1,
\* 1 exactly for a decision that is a list with an item whose lower-cased text contains
\* 'condenação'; otherwise it returned (None, None); the input table is as it was
RotuloTotal == [](RotuloTotalEstado) /\ [][RotuloTotalPasso]_vars

RotuloTotalWitness ==
  /\ etapa = "preparar_dados_para_modelo"
  /\ tabela.decisoes = <<Str("condenação"),
                         Lista(<<Str("Arquivamento"), Str("CONDENAÇÃO AO PAGAMENTO DE MULTA")>>)>>
  /\ dados_modelo.X # None
  /\ dados_modelo.y.v.valores = <<Inteiro(0), Inteiro(1)>>
  /\ dados_modelo.y.v.indice = <<1, 2>>

(***************************************************************************)
(* C25: a retained row has its four boolean dosimetry values and a string  *)
(* as text.                                                                *)
(***************************************************************************)
\* every row of the table t has True or False in the four boolean dosimetria_ columns and a
\* string in the text column
BooleanosETexto(t) ==
  \A j \in 1..Len(t.rows) :
    /\ \A e \in QuatroBooleanos : t.rows[j].cells[coluna_dosimetria(e)] \in {Bool(TRUE), Bool(FALSE)}
    /\ isinstance_str(t.rows[j].cells[coluna_texto])

\* no row of the input whose text is not a string is in the returned table
NaoTextoRemovido ==
  \A i \in 1..Len(df.rows) : ~isinstance_str(df.rows[i].cells[coluna_texto]) => ~Retida(i)

(* C25 as claimed: in every table aplicar_extracao_ao_dataframe returns,    *)
(* every row has True or False in dosimetria_reincidencia, _boa_fe, _ma_fe  *)
(* and _cooperacao and a string as its text, and no input row whose text is *)
(* not a string is retained.                                                *)
RetidaTemBooleanos ==
  /\ Extraido => BooleanosETexto(df_condenados) /\ NaoTextoRemovido
  /\ pc = "reaplicado" => BooleanosETexto(df_reaplicado)

(* C25, amended: the same, for a text column that is not one of the columns *)
(* the function writes.                                                     *)
RetidaTemBooleanosSemColisao ==
  coluna_texto \notin ColunasEscritas => RetidaTemBooleanos

RetidaTemBooleanosWitness ==
  /\ pc = "extraido"
  /\ coluna_texto = "texto_completo"
  /\ Len(df.rows) = 2
  /\ df.rows[1].cells["texto_completo"] = None
  /\ df.rows[2].cells["texto_completo"] = Str(TextoCondenada)
  /\ Len(df_condenados.rows) = 1
  /\ df_condenados.rows[1].cells["dosimetria_reincidencia"] = Bool(TRUE)
  /\ df_condenados.rows[1].cells["dosimetria_ma_fe"] = Bool(FALSE)
  /\ ~Retida(1)
====
